---- MODULE Spec2Model ----
(***************************************************************************)
(* AudioFileManager (audio_file_manager/manager.py): the metadata store,   *)
(* the occupied-id sets and get_new_file_id, the staging of recordings in  *)
(* temp files, finalize (with transcoding) / discard / defaults /          *)
(* read-only, the metadata file as JSON, and the threaded recording        *)
(* session (record_audio_threaded, record_worker, stop_recording).         *)
(* MetadataManager (metadata_manager.py): load, put, read-only flag and    *)
(* the newest message of a type.  get_audio_backend (backends.py).         *)
(***************************************************************************)
EXTENDS Integers, Sequences, FiniteSets, TLC

\* ---------------------------------------------------------------- bounds
\* timestamps (datetime.utcnow()) handed out in one behaviour
MaxClock == 2
\* clock seconds (int(time.time())) that pass in one behaviour
MaxSec == 1
\* num_buttons given to the constructor in the store specification
NumButtons == 2
\* num_buttons given to the constructor in the allocator specification
ManyButtons == 10
\* recording sessions started in one behaviour
MaxWorkers == 2

\* ------------------------------------------------------ program constants
\* MAX_FILES_PER_TYPE = set([str(i) for i in range(1, 5)])
PoolSize == 4
\* sample_rate: int = 44100 and channels: int = 1 of the constructor
SampleRate == 44100
Channels == 1

VARIABLES
    num_buttons,               \* self.num_buttons
    audio_format,              \* self.audio_format
    metadata,                  \* self.metadata: button id -> record
    occupied_away_messages,    \* self.occupied_away_messages
    occupied_custom_messages,  \* self.occupied_custom_messages
    metaFile,                  \* content of self.metadata_file
    tempFiles,                 \* files present in self.temp_dir
    storageFiles,              \* files present in self.storage_dir
    temp_info,                 \* the caller's pending descriptor
    now,                       \* number of timestamps handed out
    sec,                       \* int(time.time())
    last,                      \* the last call and what it returned
    is_recording,              \* self.is_recording
    current_file,              \* self.current_file
    stop_event,                \* self._stop_event (0: attribute not set)
    events,                    \* Event objects that are set
    workers                    \* record_worker threads, by session number

storeVars == <<num_buttons, audio_format, metadata, occupied_away_messages,
               occupied_custom_messages, metaFile, tempFiles, storageFiles,
               temp_info>>
sessionVars == <<is_recording, current_file, stop_event, events, workers>>
vars == <<num_buttons, audio_format, metadata, occupied_away_messages,
          occupied_custom_messages, metaFile, tempFiles, storageFiles,
          temp_info, now, sec, last, is_recording, current_file,
          stop_event, events, workers>>

\* ------------------------------------------------------------ identifiers
\* Button ids are decimal strings; the model keeps the number and compares
\* the strings digit by digit, as Python compares str.
RECURSIVE Digits(_)
Digits(n) == IF n < 10 THEN <<n>> ELSE Append(Digits(n \div 10), n % 10)

RECURSIVE SeqLess(_, _)
SeqLess(s, t) ==
    IF s = <<>> THEN t # <<>>
    ELSE IF t = <<>> THEN FALSE
    ELSE IF Head(s) # Head(t) THEN Head(s) < Head(t)
    ELSE SeqLess(Tail(s), Tail(t))

StrLess(a, b) == SeqLess(Digits(a), Digits(b))

\* the numerically smallest element, and min() over a set of str
NumMin(S) == CHOOSE x \in S : \A y \in S : x <= y
StrMin(S) == CHOOSE x \in S : \A y \in S : x = y \/ StrLess(x, y)

MAX_FILES_PER_TYPE == 1..PoolSize

NoId == 0
\* the slots the caller addresses in the store specification
Ids == {1, 2}
\* the categories the caller records: the two legacy ones and a free-form
\* label; the store specification records one legacy category and the label
UserTypes == {"away_message", "custom_message", "note"}
StoreTypes == {"away_message", "note"}

\* ------------------------------------------------------------------ files
NoPath == [kind |-> "none", b |-> 0, t |-> "", s |-> 0]
TempName(b, t, s) == [kind |-> "rec", b |-> b, t |-> t, s |-> s]
DefaultName(b) == [kind |-> "default", b |-> b, t |-> "", s |-> 0]
RestoredName_defaultFile(b, s) == DefaultName(b)
RestoredName(b, s) == [kind |-> "restored", b |-> b, t |-> "", s |-> s]

\* self.current_file = {} and temp_info = None
EmptyDict == [button_id |-> NoId, message_type |-> "", duration |-> 0,
              temp_path |-> NoPath, timestamp |-> 0, channels |-> 0,
              sample_rate |-> 0, audio_format |-> ""]

\* The last call: its name and arguments, the id it returned (NoId: None),
\* how it ended, and the parity of the run of get_new_file_id calls it is in.
Call(op, id, type, result, outcome) ==
    [op |-> op, id |-> id, type |-> type, result |-> result,
     outcome |-> outcome, n |-> 0]

\* ----------------------------------------------------------- the store
Put(m, b, r) == [k \in DOMAIN m \cup {b} |-> IF k = b THEN r ELSE m[k]]
Del(m, b) == [k \in DOMAIN m \ {b} |-> m[k]]
EmptyStore == [k \in {} |-> EmptyDict]

\* duration None, and a key the record does not have
NoDuration == -1
Absent == 0

\* The record assign_default and restore_default write (the model keeps the
\* file name for the name and the path; the source file is not a readable
\* WAV file, so that its duration is None); finalize_recording adds the
\* duration, the format, "sample_rate" and "channels".
Record(name, ts, type, ro, dflt) ==
    [name |-> name, duration |-> NoDuration, timestamp |-> ts,
     message_type |-> type, audio_format |-> "wav", sample_rate |-> Absent,
     channels |-> Absent, read_only |-> ro, is_default |-> dflt]

\* json.dump / json.load of the metadata: an object keyed by the button id
\* strings.  In a record a str is written and read back as the same
\* characters and an int as the same digits; True / False are written as the
\* tokens true / false and None as null.  The metadata file is absent, or
\* holds the text of such an object, or holds text json.load cannot parse
\* (it raises json.JSONDecodeError).
NoFile == [kind |-> "absent", object |-> EmptyStore]
Unparsable == [kind |-> "unparsable", object |-> EmptyStore]
JsonBool(x) == IF x THEN "true" ELSE "false"
JsonNumber(x) == IF x = NoDuration THEN <<"null">> ELSE <<"number", x>>
JsonRecord(r) ==
    [r EXCEPT !.duration = JsonNumber(r.duration),
              !.read_only = JsonBool(r.read_only),
              !.is_default = JsonBool(r.is_default)]
json_dump(m) ==
    [kind |-> "json", object |-> [k \in DOMAIN m |-> JsonRecord(m[k])]]

PyBool(j) == j = "true"
PyNumber_nullIsZero(j) == IF j = <<"null">> THEN 0 ELSE j[2]
PyNumber(j) == IF j = <<"null">> THEN NoDuration ELSE j[2]
PyRecord(j) ==
    [j EXCEPT !.duration = PyNumber(j.duration),
              !.read_only = PyBool(j.read_only),
              !.is_default = PyBool(j.is_default)]
json_load(f) == [k \in DOMAIN f.object |-> PyRecord(f.object[k])]

\* _load_metadata: {} without a file, json.load(f) of the file otherwise
load_metadata(f) == IF f.kind = "absent" THEN EmptyStore ELSE json_load(f)

\* _save_metadata: the file is opened for writing and the whole mapping is
\* dumped into it
save_metadata_keepsFile(m) == metaFile
save_metadata(m) == json_dump(m)

\* _load_occupied_sets: the ids whose loaded record has the given type
LoadOccupied(m, type) == {b \in DOMAIN m : m[b].message_type = type}

\* self.metadata.get(button_id, {}).get('read_only')
IsReadOnly_never(b) == FALSE
IsReadOnly(b) == b \in DOMAIN metadata /\ metadata[b].read_only

\* ------------------------------------------------------- get_new_file_id
\* available_ids before the overwrite branch
AvailableIds(type) ==
    IF type = "away_message" THEN MAX_FILES_PER_TYPE \ occupied_away_messages
    ELSE IF type = "custom_message"
         THEN MAX_FILES_PER_TYPE \ occupied_custom_messages
    ELSE (1..num_buttons) \ DOMAIN metadata

\* the value get_new_file_id returns (NoId: None)
NewFileId(type) ==
    IF AvailableIds(type) # {} THEN StrMin(AvailableIds(type))
    ELSE IF type \in {"away_message", "custom_message"}
         THEN StrMin(MAX_FILES_PER_TYPE)
    ELSE NoId

get_new_file_id(type) ==
    /\ occupied_away_messages' =
          IF type = "away_message" /\ AvailableIds(type) = {}
          THEN {} ELSE occupied_away_messages
    /\ occupied_custom_messages' =
          IF type = "custom_message" /\ AvailableIds(type) = {}
          THEN {} ELSE occupied_custom_messages
    /\ last' = [Call("get_new_file_id", NoId, type, NewFileId(type), "ok")
                  EXCEPT !.n = IF last.op = "get_new_file_id"
                               THEN 1 - last.n ELSE 0]
    /\ UNCHANGED <<num_buttons, audio_format, metadata, metaFile,
                   tempFiles, storageFiles,
                   temp_info, now, sec>>
    /\ UNCHANGED sessionVars

\* ---------------------------------------------------- staging a recording
\* The descriptor record_audio_to_temp returns.
\* a clip of the shortest duration the model records
ShortClip == 1

Descriptor(b, type, ts, s) ==
    [button_id |-> b, message_type |-> type, duration |-> ShortClip,
     temp_path |-> TempName(b, type, s), timestamp |-> ts,
     channels |-> Channels, sample_rate |-> SampleRate,
     audio_format |-> "wav"]

\* record_audio_to_temp called by the caller itself, which sets stop_event
\* from another thread and keeps the returned descriptor; a driver that
\* raises leaves no file and no descriptor.  d is the duration of what the
\* driver captured.
record_audio_to_temp(b, type, driverOk, d) ==
    /\ now < MaxClock
    /\ now' = now + 1
    /\ IF driverOk
       THEN /\ tempFiles' = tempFiles \cup {TempName(b, type, sec)}
            /\ temp_info' = [Descriptor(b, type, now + 1, sec)
                               EXCEPT !.duration = d]
            /\ last' = Call("record_audio_to_temp", b, type, NoId, "ok")
       ELSE /\ UNCHANGED <<tempFiles, temp_info>>
            /\ last' = Call("record_audio_to_temp", b, type, NoId, "raised")
    /\ UNCHANGED <<num_buttons, audio_format, metadata, occupied_away_messages,
                   occupied_custom_messages, metaFile, storageFiles, sec>>
    /\ UNCHANGED sessionVars

\* final_name: temp_path.name, or temp_path.stem + "_alaw.wav" / "_ulaw.wav"
Transcoded == {"alaw", "ulaw"}
FinalName_overDefault(path) == DefaultName(path.b)
FinalName(path) ==
    IF audio_format = "alaw" THEN [path EXCEPT !.kind = "rec_alaw"]
    ELSE IF audio_format = "ulaw" THEN [path EXCEPT !.kind = "rec_ulaw"]
    ELSE path

\* the record finalize_recording writes
FinalRecord_bareRecord(info) ==
    Record(FinalName(info.temp_path), info.timestamp, info.message_type,
           FALSE, FALSE)
FinalRecord(info) ==
    [name |-> FinalName(info.temp_path),
     duration |-> info.duration,
     timestamp |-> info.timestamp,
     message_type |-> info.message_type,
     audio_format |-> audio_format,
     sample_rate |-> info.sample_rate,
     channels |-> info.channels,
     read_only |-> FALSE,
     is_default |-> FALSE]

\* what becomes of the two files: the temp file is moved to the final path,
\* or ffmpeg writes the final path and the temp file is left where it is
MovedTemp_copied(info) == tempFiles
MovedTemp(info) == tempFiles \ {info.temp_path}
ConvertedTemp(info) == tempFiles

\* finalize_recording(temp_path_info).  With audio_format alaw or ulaw
\* _convert_audio_format runs ffmpeg, which succeeds or not (exit status,
\* timeout, executable not found); when it does not, and with pcm, the temp
\* file is moved.  shutil.move raises when the temp file is gone, before
\* anything is updated (ffmpeg cannot succeed without its input).
\* shutil.move(temp_path, final_path) finds no file at temp_path
TempMissing_never(info) == FALSE
TempMissing(info) == info.temp_path \notin tempFiles

finalize_recording(info) ==
    LET b == info.button_id
        type == info.message_type
        commit(outcome, temps) ==
            /\ tempFiles' = temps
            /\ storageFiles' = storageFiles \cup {FinalName(info.temp_path)}
            /\ occupied_away_messages' =
                  IF type = "away_message"
                  THEN occupied_away_messages \cup {b}
                  ELSE occupied_away_messages
            /\ occupied_custom_messages' =
                  IF type = "custom_message"
                  THEN occupied_custom_messages \cup {b}
                  ELSE occupied_custom_messages
            /\ metadata' = Put(metadata, b, FinalRecord(info))
            /\ metaFile' = save_metadata(metadata')
            /\ last' = Call("finalize_recording", b, type, NoId, outcome)
    IN
    /\ info # EmptyDict
    /\ IF IsReadOnly(b)
       THEN /\ last' = Call("finalize_recording", b, type, NoId, "blocked")
            /\ UNCHANGED <<metadata, occupied_away_messages,
                           occupied_custom_messages, metaFile, tempFiles,
                           storageFiles>>
       ELSE IF TempMissing(info)
       THEN /\ last' = Call("finalize_recording", b, type, NoId, "raised")
            /\ UNCHANGED <<metadata, occupied_away_messages,
                           occupied_custom_messages, metaFile, tempFiles,
                           storageFiles>>
       ELSE IF audio_format \in Transcoded
       THEN \/ commit("converted", ConvertedTemp(info))
            \/ commit("fallback", MovedTemp(info))
       ELSE commit("ok", MovedTemp(info))
    /\ UNCHANGED <<num_buttons, audio_format, temp_info, now, sec>>
    /\ UNCHANGED sessionVars

\* Button ids are str(button_id) of an int or of a free-form label.  The
\* model has two labels, the second being the first followed by "_" and one
\* more part ("intro" and "intro_old"); IdParts is the id split at "_".
Label == 11
LongLabel == 12
IdParts(b) == IF b = LongLabel THEN <<Label, LongLabel>> ELSE <<b>>
IsPrefix(s, t) == Len(s) <= Len(t) /\ SubSeq(t, 1, Len(s)) = s

\* glob(f"{button_id}_*.wav") over the names
\* "{button_id}_{keyword}_{seconds}.wav": the name starts with the id and
\* "_" (no id part of the model is a keyword).
GlobMatches(b, f) == IsPrefix(IdParts(b), IdParts(f.b))

\* discard_recording: unlink every temp file matching "{button_id}_*.wav";
\* n tells the second of two discards of one slot from the first
discard_recording_raisesWhenNone(b) ==
    /\ tempFiles' = {f \in tempFiles : ~GlobMatches(b, f)}
    /\ last' = [Call("discard_recording", b, "", NoId,
                     IF tempFiles' = tempFiles THEN "raised" ELSE "ok")
                EXCEPT !.n = IF last.op = "discard_recording" /\ last.id = b
                             THEN 1 - last.n ELSE 0]
    /\ UNCHANGED <<num_buttons, audio_format, metadata,
                   occupied_away_messages, occupied_custom_messages,
                   metaFile, storageFiles, temp_info, now, sec>>
    /\ UNCHANGED sessionVars
discard_recording(b) ==
    /\ tempFiles' = {f \in tempFiles : ~GlobMatches(b, f)}
    /\ last' = [Call("discard_recording", b, "", NoId, "ok") EXCEPT
                  !.n = IF last.op = "discard_recording" /\ last.id = b
                        THEN 1 - last.n ELSE 0]
    /\ UNCHANGED <<num_buttons, audio_format, metadata,
                   occupied_away_messages, occupied_custom_messages,
                   metaFile, storageFiles, temp_info, now, sec>>
    /\ UNCHANGED sessionVars

\* self.metadata[button_id]['read_only'] = read_only
Flagged_alsoDefault(r, ro) == [r EXCEPT !.read_only = ro, !.is_default = ro]
Flagged(r, ro) == [r EXCEPT !.read_only = ro]

set_read_only(b, ro) ==
    /\ IF b \notin DOMAIN metadata
       THEN /\ last' = Call("set_read_only", b, "", NoId, "noop")
            /\ UNCHANGED <<metadata, metaFile>>
       ELSE /\ metadata' = [metadata EXCEPT ![b] = Flagged(@, ro)]
            /\ metaFile' = save_metadata(metadata')
            /\ last' = Call("set_read_only", b, "", NoId, "ok")
    /\ UNCHANGED <<num_buttons, audio_format, occupied_away_messages,
                   occupied_custom_messages, tempFiles, storageFiles,
                   temp_info, now, sec>>
    /\ UNCHANGED sessionVars

\* not Path(file_path).exists()
SourceMissing_never(sourceExists) == FALSE
SourceMissing(sourceExists) == ~sourceExists

\* The record of the call says "noop" when it was given a source file that
\* does not exist.
assign_default(b, sourceExists) ==
    /\ last' = Call("assign_default", b, "", NoId,
                    IF sourceExists THEN "ok" ELSE "noop")
    /\ IF SourceMissing(sourceExists)
       THEN UNCHANGED <<metadata, metaFile, storageFiles, now>>
       ELSE /\ now < MaxClock
            /\ now' = now + 1
            /\ storageFiles' = storageFiles \cup {DefaultName(b)}
            /\ metadata' = Put(metadata, b,
                  Record(DefaultName(b), now + 1, "default", TRUE, TRUE))
            /\ metaFile' = save_metadata(metadata')
    /\ UNCHANGED <<num_buttons, audio_format, occupied_away_messages,
                   occupied_custom_messages, tempFiles, temp_info, sec>>
    /\ UNCHANGED sessionVars

\* not default_path.exists()
DefaultMissing_never(b) == FALSE
DefaultMissing(b) == DefaultName(b) \notin storageFiles

restore_default(b) ==
    /\ IF DefaultMissing(b)
       THEN /\ last' = Call("restore_default", b, "", NoId, "noop")
            /\ UNCHANGED <<metadata, metaFile, storageFiles, now>>
       ELSE /\ now < MaxClock
            /\ now' = now + 1
            /\ storageFiles' = storageFiles \cup {RestoredName(b, sec)}
            /\ metadata' = Put(metadata, b,
                  Record(RestoredName(b, sec), now + 1, "restored_default",
                         FALSE, FALSE))
            /\ metaFile' = save_metadata(metadata')
            /\ last' = Call("restore_default", b, "", NoId, "ok")
    /\ UNCHANGED <<num_buttons, audio_format, occupied_away_messages,
                   occupied_custom_messages, tempFiles, temp_info, sec>>
    /\ UNCHANGED sessionVars

\* _handle_delete of the interactive front end, confirmed with "y": the
\* only deletion of a record in the repository.
handle_delete(b) ==
    /\ IF b \notin DOMAIN metadata
       THEN /\ last' = Call("delete", b, "", NoId, "noop")
            /\ UNCHANGED <<metadata, metaFile, storageFiles>>
       ELSE IF metadata[b].read_only
       THEN /\ last' = Call("delete", b, "", NoId, "blocked")
            /\ UNCHANGED <<metadata, metaFile, storageFiles>>
       ELSE IF metadata[b].name \notin storageFiles
       THEN /\ last' = Call("delete", b, "", NoId, "raised")
            /\ UNCHANGED <<metadata, metaFile, storageFiles>>
       ELSE /\ storageFiles' = storageFiles \ {metadata[b].name}
            /\ metadata' = Del(metadata, b)
            /\ metaFile' = save_metadata(metadata')
            /\ last' = Call("delete", b, "", NoId, "ok")
    /\ UNCHANGED <<num_buttons, audio_format, occupied_away_messages,
                   occupied_custom_messages, tempFiles, temp_info, now, sec>>
    /\ UNCHANGED sessionVars

\* play_audio(file_path).  The caller passes a str: the path of a file, or
\* the text of a slot id.  Path(file_path) is looked up as a file and as
\* nothing else: the text of an id names no file.  When the file is there
\* it is read with wave.open and handed to the driver; either may raise,
\* which is caught and logged.  No path ends in a return statement with a
\* value: the call returns None.
SlotArg(b) == [id |-> b, path |-> NoPath]
PathArg(f) == [id |-> NoId, path |-> f]

\* how the call ends once the file is there: wave.open and the driver's
\* play_audio are inside try / except Exception
PlayOutcome_propagates(driverOk) == IF driverOk THEN "played" ELSE "raised"
PlayOutcome(driverOk) == IF driverOk THEN "played" ELSE "failed"

play_audio(x) ==
    /\ IF x.path \notin storageFiles \cup tempFiles
       THEN last' = Call("play_audio", x.id, "", "None", "not_found")
       ELSE \E driverOk \in BOOLEAN :
               last' = Call("play_audio", x.id, "", "None",
                            PlayOutcome(driverOk))
    /\ UNCHANGED storeVars
    /\ UNCHANGED <<now, sec>>
    /\ UNCHANGED sessionVars

\* a second of wall-clock time passes
Tick ==
    /\ sec < MaxSec
    /\ sec' = sec + 1
    /\ UNCHANGED <<now, last>>
    /\ UNCHANGED storeVars
    /\ UNCHANGED sessionVars

\* ------------------------------------------------ the recording session
\* A start request that has not been made yet.
NoObservation == [idle |-> TRUE, desc |-> EmptyDict, partial |-> FALSE]
NoWorker == [pc |-> "none", b |-> NoId, type |-> "", cb |-> FALSE,
             desc |-> EmptyDict, failed |-> FALSE, solo |-> TRUE,
             fired |-> 0, obs |-> NoObservation]
NoWorkers == [w \in 1..MaxWorkers |-> NoWorker]

\* Start requests are numbered in the order they are made; request w owns
\* workers[w] and, once accepted, the Event object w.
Sessions == 1..MaxWorkers
Alive(w) == workers[w].pc \notin {"none", "rejected", "done"}
Unused == {w \in Sessions : workers[w].pc = "none"}

\* the file at the path is open for writing in some worker
Partial(path) ==
    \E v \in Sessions : workers[v].pc = "writing"
                         /\ workers[v].desc.temp_path = path

\* the check at the head of record_audio_threaded
StartRejected == is_recording

\* record_audio_threaded(button_id, message_type, stop_callback): returns
\* None when a recording is in progress; otherwise makes an Event, starts
\* the worker thread and keeps the Event in self._stop_event.
record_audio_threaded(b, type, cb) ==
    /\ Unused # {}
    /\ LET w == NumMin(Unused) IN
       IF StartRejected
       THEN /\ workers' = [workers EXCEPT ![w] =
                             [NoWorker EXCEPT !.pc = "rejected", !.b = b,
                                              !.type = type, !.cb = cb]]
            /\ last' = Call("record_audio_threaded", NoId, "", NoId,
                            "rejected")
            /\ UNCHANGED stop_event
       ELSE /\ workers' =
                  [v \in Sessions |->
                     IF v = w
                     THEN [NoWorker EXCEPT
                             !.pc = "started", !.b = b, !.type = type,
                             !.cb = cb,
                             !.solo = \A u \in Sessions : ~Alive(u)]
                     ELSE IF Alive(v)
                          THEN [workers[v] EXCEPT !.solo = FALSE]
                          ELSE workers[v]]
            /\ stop_event' = w
            /\ last' = Call("record_audio_threaded", NoId, "", NoId,
                            "accepted")
    /\ UNCHANGED <<is_recording, current_file, events, now, sec>>
    /\ UNCHANGED storeVars

\* stop_recording: sets the Event kept in self._stop_event, if there is one
stop_recording ==
    /\ events' = IF stop_event # 0 THEN events \cup {stop_event} ELSE events
    /\ last' = Call("stop_recording", NoId, "", NoId, "ok")
    /\ UNCHANGED <<is_recording, current_file, stop_event, workers, now,
                   sec>>
    /\ UNCHANGED storeVars

\* record_worker, first statement, and the head of record_audio_to_temp:
\* the file name and the timestamp are taken before the capture starts.
WorkerBegin(w) ==
    /\ workers[w].pc = "started"
    /\ is_recording' = TRUE
    /\ now' = now + 1
    /\ workers' = [workers EXCEPT
          ![w].pc = "capturing",
          ![w].desc = Descriptor(workers[w].b, workers[w].type, now + 1, sec)]
    /\ UNCHANGED <<current_file, stop_event, events, sec, last>>
    /\ UNCHANGED storeVars

\* audio_backend.record_audio raises: record_worker logs it and goes to
\* its finally clause
WorkerDriverFails(w) ==
    /\ workers[w].pc = "capturing"
    /\ workers' = [workers EXCEPT ![w].pc = "finally", ![w].failed = TRUE]
    /\ UNCHANGED <<is_recording, current_file, stop_event, events, now, sec,
                   last>>
    /\ UNCHANGED storeVars

\* audio_backend.record_audio returns once the session's Event is set, and
\* wave.open(temp_path, 'wb') creates or truncates the file
WorkerOpen(w) ==
    /\ workers[w].pc = "capturing"
    /\ w \in events
    /\ tempFiles' = tempFiles \cup {workers[w].desc.temp_path}
    /\ workers' = [workers EXCEPT ![w].pc = "writing"]
    /\ UNCHANGED <<num_buttons, audio_format, metadata, occupied_away_messages,
                   occupied_custom_messages, metaFile, storageFiles,
                   temp_info>>
    /\ UNCHANGED <<is_recording, current_file, stop_event, events, now, sec,
                   last>>

\* writeframes and the end of the with block: the file is closed
WorkerClose(w) ==
    /\ workers[w].pc = "writing"
    /\ workers' = [workers EXCEPT ![w].pc = "written"]
    /\ UNCHANGED <<is_recording, current_file, stop_event, events, now, sec,
                   last>>
    /\ UNCHANGED storeVars

\* self.current_file = self.record_audio_to_temp(...)
WorkerSetCurrent(w) ==
    /\ workers[w].pc = "written"
    /\ current_file' = workers[w].desc
    /\ workers' = [workers EXCEPT ![w].pc = "finally"]
    /\ UNCHANGED <<is_recording, stop_event, events, now, sec, last>>
    /\ UNCHANGED storeVars

\* finally: self.is_recording = False
WorkerFinally(w) ==
    /\ workers[w].pc = "finally"
    /\ is_recording' = FALSE
    /\ workers' = [workers EXCEPT ![w].pc = "callback"]
    /\ UNCHANGED <<current_file, stop_event, events, now, sec, last>>
    /\ UNCHANGED storeVars

\* if stop_callback: stop_callback()
CallbackFires_onSuccessOnly(w) == workers[w].cb /\ ~workers[w].failed
CallbackFires(w) == workers[w].cb

\* The callback is _recording_completed_callback of the front end: it keeps
\* a copy of current_file as the pending descriptor, or None when
\* current_file is empty.  obs is what it finds when it runs.
WorkerCallback(w) ==
    /\ workers[w].pc = "callback"
    /\ IF CallbackFires(w)
       THEN /\ workers' = [workers EXCEPT
                  ![w].pc = "done",
                  ![w].fired = @ + 1,
                  ![w].obs = [idle |-> ~is_recording,
                              desc |-> current_file,
                              partial |->
                                \/ workers[w].desc.temp_path \notin tempFiles
                                \/ Partial(workers[w].desc.temp_path)]]
            /\ temp_info' = current_file
       ELSE /\ workers' = [workers EXCEPT ![w].pc = "done"]
            /\ UNCHANGED temp_info
    /\ UNCHANGED <<num_buttons, audio_format, metadata, occupied_away_messages,
                   occupied_custom_messages, metaFile, tempFiles,
                   storageFiles>>
    /\ UNCHANGED <<is_recording, current_file, stop_event, events, now, sec,
                   last>>

\* ------------------------------------------------------------ the state
\* after construction

InitSession ==
    /\ is_recording = FALSE
    /\ current_file = EmptyDict
    /\ stop_event = 0
    /\ events = {}
    /\ workers = NoWorkers

\* The constructor over an absent metadata file.
Init ==
    /\ num_buttons = NumButtons
    /\ audio_format = "pcm"
    /\ metadata = EmptyStore
    /\ occupied_away_messages = LoadOccupied(metadata, "away_message")
    /\ occupied_custom_messages = LoadOccupied(metadata, "custom_message")
    /\ metaFile = NoFile
    /\ tempFiles = {}
    /\ storageFiles = {}
    /\ temp_info = EmptyDict
    /\ now = 0
    /\ sec = 0
    /\ last = Call("init", NoId, "", NoId, "ok")
    /\ InitSession

\* The caller's operations on the store; get_new_file_id, which changes
\* nothing of the store below a full pool, is in the allocator specification.
Next ==
    \/ \E b \in Ids, type \in StoreTypes, ok \in BOOLEAN :
           record_audio_to_temp(b, type, ok, ShortClip)
    \/ finalize_recording(temp_info)
    \/ \E b \in Ids : discard_recording(b)
    \/ \E b \in Ids, ro \in BOOLEAN : set_read_only(b, ro)
    \/ \E b \in Ids, ex \in BOOLEAN : assign_default(b, ex)
    \/ \E b \in Ids : restore_default(b)
    \/ \E b \in Ids : handle_delete(b)
    \/ Tick

Spec == Init /\ [][Next]_vars

\* ------------------------------------------------ staging by itself
\* cleanup() and a new AudioFileManager over the same storage directory and
\* metadata file: the temp directory is removed and a new one made, the
\* metadata is loaded from the file and the occupied sets from the metadata.
\* Over a file json.load cannot parse the constructor raises
\* json.JSONDecodeError out of _load_metadata and no manager is made.
Reopen ==
    /\ tempFiles' = {}
    /\ IF metaFile.kind = "unparsable"
       THEN /\ last' = Call("reopen", NoId, "", NoId, "raised")
            /\ UNCHANGED <<metadata, occupied_away_messages,
                           occupied_custom_messages, is_recording,
                           current_file, stop_event>>
       ELSE /\ metadata' = load_metadata(metaFile)
            /\ occupied_away_messages' =
                  LoadOccupied(metadata', "away_message")
            /\ occupied_custom_messages' =
                  LoadOccupied(metadata', "custom_message")
            /\ is_recording' = FALSE
            /\ current_file' = EmptyDict
            /\ stop_event' = 0
            /\ last' = Call("reopen", NoId, "", NoId, "ok")
    /\ UNCHANGED <<num_buttons, audio_format, metaFile, storageFiles,
                   temp_info, now, sec, events, workers>>

\* The manager is constructed with any of the three formats; the caller
\* records clips of two durations for an int slot and two label slots,
\* finalizes or discards them, assigns a default and reopens the manager.
Formats == {"pcm", "alaw", "ulaw"}
Durations == {1, 2}
StagingIds == {1, Label, LongLabel}

InitStaging ==
    /\ num_buttons = NumButtons
    /\ audio_format \in Formats
    /\ metadata = EmptyStore
    /\ occupied_away_messages = LoadOccupied(metadata, "away_message")
    /\ occupied_custom_messages = LoadOccupied(metadata, "custom_message")
    /\ metaFile = NoFile
    /\ tempFiles = {}
    /\ storageFiles = {}
    /\ temp_info = EmptyDict
    /\ now = 0
    /\ sec = 0
    /\ last = Call("init", NoId, "", NoId, "ok")
    /\ InitSession

NextStaging ==
    \/ \E b \in StagingIds, d \in Durations :
           record_audio_to_temp(b, "note", TRUE, d)
    \/ finalize_recording(temp_info)
    \/ \E b \in StagingIds : discard_recording(b)
    \/ \E ro \in BOOLEAN : set_read_only(1, ro)
    \/ assign_default(Label, TRUE)
    \/ Reopen
    \/ Tick

SpecStaging == InitStaging /\ [][NextStaging]_vars

\* ------------------------------------------- the session by itself
\* The caller starts and stops recordings of one category for one slot
\* while the workers run and the clock advances (two sessions get the same
\* temp file name or different ones); the store is not touched.
SessionIds == {1}

NextSession ==
    \/ \E b \in SessionIds, cb \in BOOLEAN :
           record_audio_threaded(b, "custom_message", cb)
    \/ stop_recording
    \/ \E w \in Sessions : WorkerBegin(w)
    \/ \E w \in Sessions : WorkerDriverFails(w)
    \/ \E w \in Sessions : WorkerOpen(w)
    \/ \E w \in Sessions : WorkerClose(w)
    \/ \E w \in Sessions : WorkerSetCurrent(w)
    \/ \E w \in Sessions : WorkerFinally(w)
    \/ \E w \in Sessions : WorkerCallback(w)
    \/ Tick

SpecSession == Init /\ [][NextSession]_vars

\* ------------------------------------------------ the allocator by itself
\* The constructor over a metadata file left by an earlier run: _load_metadata
\* returns whatever mapping the file holds and _load_occupied_sets derives
\* the two sets from it.  The file holds records of one category under any
\* set of ids, written in ascending or in descending slot order; one more
\* recording fits in the behaviour.
LoadedTimestamp(order, k) ==
    IF order = "ascending" THEN k - (ManyButtons + 1) ELSE 0 - k

LoadedStore(K, type, order) ==
    [k \in K |-> Record(TempName(k, type, 0), LoadedTimestamp(order, k),
                         type, FALSE, FALSE)]

InitAlloc ==
    /\ num_buttons = ManyButtons
    /\ audio_format = "pcm"
    /\ \E K \in SUBSET (1..ManyButtons), type \in UserTypes,
          order \in {"ascending", "descending"} :
            metadata = LoadedStore(K, type, order)
    /\ occupied_away_messages = LoadOccupied(metadata, "away_message")
    /\ occupied_custom_messages = LoadOccupied(metadata, "custom_message")
    /\ metaFile = json_dump(metadata)
    /\ tempFiles = {}
    /\ storageFiles = {metadata[k].name : k \in DOMAIN metadata}
    /\ temp_info = EmptyDict
    /\ now = MaxClock - 1
    /\ sec = 0
    /\ last = Call("init", NoId, "", NoId, "ok")
    /\ InitSession

\* LegacyServiceAdapter.run: the id get_new_file_id returned is the slot the
\* recording is made for.
RecordAllocated ==
    /\ last.op = "get_new_file_id"
    /\ last.result # NoId
    /\ record_audio_to_temp(last.result, last.type, TRUE, ShortClip)

NextAlloc ==
    \/ \E type \in UserTypes : get_new_file_id(type)
    \/ RecordAllocated
    \/ finalize_recording(temp_info)

SpecAlloc == InitAlloc /\ [][NextAlloc]_vars

\* ------------------------------------- the constructor over a file on disk
\* Before the manager is constructed the metadata file is absent, or was
\* left by an earlier run with records under any of the ids, or holds text
\* that is not JSON (a truncated or hand-edited file).  The caller
\* constructs the manager, with any of the three formats, and, when that
\* returned one, uses it: it records (the driver may fail), finalizes, sets
\* defaults and flags, and plays a slot or a file.
DiskFiles ==
    {NoFile, Unparsable}
      \cup {json_dump(LoadedStore(K, "note", "ascending")) : K \in SUBSET Ids}

\* the caller holds a manager: one was constructed and the last
\* construction did not raise
ManagerLive ==
    /\ last.op # "start"
    /\ ~(last.op = "reopen" /\ last.outcome = "raised")

InitLoad ==
    /\ num_buttons = NumButtons
    /\ audio_format \in Formats
    /\ metadata = EmptyStore
    /\ occupied_away_messages = {}
    /\ occupied_custom_messages = {}
    /\ metaFile \in DiskFiles
    /\ tempFiles = {}
    /\ storageFiles = {metaFile.object[k].name : k \in DOMAIN metaFile.object}
    /\ temp_info = EmptyDict
    /\ now = 0
    /\ sec = 0
    /\ last = Call("start", NoId, "", NoId, "ok")
    /\ InitSession

NextLoad ==
    \/ Reopen
    \/ /\ ManagerLive
       /\ \E b \in Ids, ok \in BOOLEAN :
             record_audio_to_temp(b, "note", ok, ShortClip)
    \/ ManagerLive /\ finalize_recording(temp_info)
    \/ ManagerLive /\ \E b \in Ids, ro \in BOOLEAN : set_read_only(b, ro)
    \/ ManagerLive /\ \E b \in Ids, ex \in BOOLEAN : assign_default(b, ex)
    \/ ManagerLive /\ \E b \in Ids : restore_default(b)
    \/ ManagerLive /\ \E b \in Ids : play_audio(SlotArg(b))
    \/ /\ ManagerLive
       /\ \E f \in storageFiles \cup {DefaultName(1)} : play_audio(PathArg(f))

SpecLoad == InitLoad /\ [][NextLoad]_vars

\* --------------------------------- MetadataManager (metadata_manager.py)
\* The text of a timestamp, by how it was written: strftime with
\* "%Y-%m-%d %H:%M:%S" (create_timestamp), datetime.isoformat() (a "T"
\* between date and time, and microseconds), the empty string, or no
\* "timestamp" key at all; at is the instant, in seconds since 1970.
strftime(t) == [style |-> "%Y-%m-%d %H:%M:%S", at |-> t]
isoformat(t) == [style |-> "isoformat", at |-> t]
EmptyText == [style |-> "empty", at |-> 0]
NoText == [style |-> "missing", at |-> 0]

\* meta.get("timestamp") is a non-empty string
Truthy(text) == text.style \notin {"empty", "missing"}
\* datetime.strptime(text, "%Y-%m-%d %H:%M:%S") returns (it raises
\* ValueError on any other text), and the seconds since 1970 it gives
Parses(text) == text.style = "%Y-%m-%d %H:%M:%S"
strptime(text) == text.at

\* what get_newest_message_of_type returns when it found nothing: None
NoMessage == [message_type |-> "None"]

\* the orders in which a dict with the keys S can be iterated
Orders(S) ==
    {o \in [1..Cardinality(S) -> S] :
        \A i, j \in 1..Cardinality(S) : o[i] = o[j] => i = j}

\* one iteration of the loop of get_newest_message_of_type: does it take
\* the record as the newest so far
TakesNewest_anyType(meta, type, latest) ==
    /\ Truthy(meta.timestamp)
    /\ Parses(meta.timestamp)
    /\ strptime(meta.timestamp) > latest
TakesNewest(meta, type, latest) ==
    /\ meta.message_type = type
    /\ Truthy(meta.timestamp)
    /\ Parses(meta.timestamp)
    /\ strptime(meta.timestamp) > latest

\* the loop over self.metadata.items(), from newest_message and latest_time
RECURSIVE ScanNewest(_, _, _, _, _)
ScanNewest(m, order, type, newest, latest) ==
    IF order = <<>> THEN newest
    ELSE LET meta == m[Head(order)]
         IN IF TakesNewest(meta, type, latest)
            THEN ScanNewest(m, Tail(order), type, meta,
                            strptime(meta.timestamp))
            ELSE ScanNewest(m, Tail(order), type, newest, latest)

\* MetadataManager._load: {} without a file and over a file json.load
\* cannot parse (the JSONDecodeError is caught)
MetadataManager_load(f) ==
    IF f.kind = "json" THEN json_load(f) ELSE EmptyStore

\* MetadataManager(metadata_file)
MetadataManager_init ==
    /\ metadata' = MetadataManager_load(metaFile)
    /\ last' = Call("MetadataManager", NoId, "", NoId, "ok")
    /\ UNCHANGED <<num_buttons, audio_format, occupied_away_messages,
                   occupied_custom_messages, metaFile, tempFiles,
                   storageFiles, temp_info, now, sec>>
    /\ UNCHANGED sessionVars

\* update_recording(button_id, data)
update_recording(b, data) ==
    /\ metadata' = Put(metadata, b, data)
    /\ metaFile' = json_dump(metadata')
    /\ last' = Call("update_recording", b, "", NoId, "ok")
    /\ UNCHANGED <<num_buttons, audio_format, occupied_away_messages,
                   occupied_custom_messages, tempFiles, storageFiles,
                   temp_info, now, sec>>
    /\ UNCHANGED sessionVars

\* MetadataManager.set_read_only(button_id, read_only)
MetadataManager_set_read_only(b, ro) ==
    /\ IF b \in DOMAIN metadata
       THEN /\ metadata' = [metadata EXCEPT ![b] = Flagged(@, ro)]
            /\ metaFile' = json_dump(metadata')
            /\ last' = Call("MetadataManager.set_read_only", b, "", NoId,
                            "ok")
       ELSE /\ last' = Call("MetadataManager.set_read_only", b, "", NoId,
                            "noop")
            /\ UNCHANGED <<metadata, metaFile>>
    /\ UNCHANGED <<num_buttons, audio_format, occupied_away_messages,
                   occupied_custom_messages, tempFiles, storageFiles,
                   temp_info, now, sec>>
    /\ UNCHANGED sessionVars

\* get_newest_message_of_type(message_type); the dict is iterated in the
\* order its keys were inserted, which the mapping does not keep: any order
get_newest_message_of_type(type) ==
    /\ \E order \in Orders(DOMAIN metadata) :
          last' = Call("get_newest_message_of_type", NoId, type,
                       ScanNewest(metadata, order, type, NoMessage, 0),
                       "ok")
    /\ UNCHANGED storeVars
    /\ UNCHANGED <<now, sec>>
    /\ UNCHANGED sessionVars

\* Before the store is constructed the file is absent, unparsable, or holds
\* one message.  The caller constructs the store and then puts messages of two categories under three ids, with
\* timestamps written in the fixed format at two instants, written by
\* isoformat(), empty or missing, sets the read-only flag of the first id,
\* asks for the newest message of a category and constructs the store again.
StoreIds == {1, 2, 3}
MessageTypes == {"away_message", "custom_message"}
Texts == {strftime(1), strftime(2), isoformat(3), EmptyText, NoText}

Message(b, type, text) ==
    [Record(TempName(b, type, 0), 0, type, FALSE, FALSE)
       EXCEPT !.timestamp = text]

StoreFiles ==
    {NoFile, Unparsable,
     json_dump(Put(EmptyStore, 1, Message(1, "away_message", strftime(1))))}

\* the caller holds a store
StoreLive == last.op # "start"

InitStore ==
    /\ num_buttons = NumButtons
    /\ audio_format = "pcm"
    /\ metaFile \in StoreFiles
    /\ metadata = EmptyStore
    /\ occupied_away_messages = {}
    /\ occupied_custom_messages = {}
    /\ tempFiles = {}
    /\ storageFiles = {}
    /\ temp_info = EmptyDict
    /\ now = 0
    /\ sec = 0
    /\ last = Call("start", NoId, "", NoId, "ok")
    /\ InitSession

NextStore ==
    \/ MetadataManager_init
    \/ \E b \in StoreIds, type \in MessageTypes, text \in Texts :
           StoreLive /\ update_recording(b, Message(b, type, text))
    \/ \E ro \in BOOLEAN : StoreLive /\ MetadataManager_set_read_only(1, ro)
    \/ \E type \in MessageTypes :
           StoreLive /\ get_newest_message_of_type(type)

SpecStore == InitStore /\ [][NextStore]_vars

\* ------------------------------------- get_audio_backend (backends.py)
\* A device argument: None or a str.  int(device) succeeds on the text of a
\* number (SoundDeviceBackend._to_int_if_possible); None and the empty
\* string are false in "input_device or 'default'".
NoDevice == [kind |-> "None", text |-> ""]
StrDevice(t) == [kind |-> "str", text |-> t]
IntDevice(t) == [kind |-> "int", text |-> t]
Numerals == {"2"}
Devices == {NoDevice, StrDevice(""), StrDevice("hw:1,0"), StrDevice("2")}

OrDefault(d) ==
    IF d.kind = "None" \/ d.text = "" THEN StrDevice("default") ELSE d
to_int_if_possible(d) ==
    IF d.kind = "str" /\ d.text \in Numerals THEN IntDevice(d.text) ELSE d

\* platform.system() and the modules an import statement finds
Platforms == {"Linux", "Windows", "Darwin"}
Modules == {"alsaaudio", "sounddevice", "numpy"}

\* is_available of the two real backends: the imports do not raise
\* ImportError
ALSA_is_available(importable) == "alsaaudio" \in importable
SoundDevice_is_available(importable) ==
    {"sounddevice", "numpy"} \subseteq importable

\* the instances the factory makes
ALSABackend(in, out) ==
    [class |-> "ALSABackend", input_device |-> in, output_device |-> out]
SoundDeviceBackend(in, out) ==
    [class |-> "SoundDeviceBackend",
     input_device |-> to_int_if_possible(in),
     output_device |-> to_int_if_possible(out)]
MockAudioBackend ==
    [class |-> "MockAudioBackend", input_device |-> NoDevice,
     output_device |-> NoDevice]

\* the ALSA branch is tried
TriesALSA_anyPlatform(platform) == TRUE
TriesALSA(platform) == platform = "Linux"

\* what get_audio_backend(input_device, output_device) returns
AudioBackendFor(platform, importable, in, out) ==
    IF TriesALSA(platform) /\ ALSA_is_available(importable)
    THEN ALSABackend(OrDefault(in), OrDefault(out))
    ELSE IF SoundDevice_is_available(importable)
    THEN SoundDeviceBackend(in, out)
    ELSE MockAudioBackend

\* the call, on a platform with some of the modules installed; the record
\* of the call keeps the environment and the arguments
get_audio_backend(platform, importable, in, out) ==
    /\ last' = Call("get_audio_backend",
                    [importable |-> importable, input_device |-> in,
                     output_device |-> out],
                    platform,
                    AudioBackendFor(platform, importable, in, out), "ok")
    /\ UNCHANGED storeVars
    /\ UNCHANGED <<now, sec>>
    /\ UNCHANGED sessionVars

NextBackend ==
    \E platform \in Platforms, importable \in SUBSET Modules,
       in \in Devices, out \in Devices :
         get_audio_backend(platform, importable, in, out)

SpecBackend == Init /\ [][NextBackend]_vars

\* ================================================== the claims, store
\* the ids under which the store holds a record of the category
TypeIds(type) == {b \in DOMAIN metadata : metadata[b].message_type = type}

\* the id space of the category
Universe(type) ==
    IF type \in {"away_message", "custom_message"}
    THEN MAX_FILES_PER_TYPE ELSE 1..num_buttons

FreeIds(type) == Universe(type) \ TypeIds(type)
Saturated(type) == FreeIds(type) = {}

\* the occupants of the category's id space with the oldest timestamp
Oldest(type) ==
    {b \in Universe(type) \cap TypeIds(type) :
        \A c \in Universe(type) \cap TypeIds(type) :
            metadata[b].timestamp <= metadata[c].timestamp}

\* the set get_new_file_id subtracts from the id space of the category
OccupiedFor(type) ==
    IF type = "away_message" THEN occupied_away_messages
    ELSE IF type = "custom_message" THEN occupied_custom_messages
    ELSE DOMAIN metadata

\* C1: a finalize into a slot whose record is read-only, and a delete of
\* such a slot, leave the whole store, the backing file, the temp files
\* (the pending file is not moved) and the storage files unchanged.
C1_ReadOnlyProtection ==
    [][\A b \in Ids :
          ( /\ b \in DOMAIN metadata
            /\ metadata[b].read_only
            /\ last' # last
            /\ last'.op \in {"finalize_recording", "delete"}
            /\ last'.id = b )
          => /\ metadata' = metadata
             /\ metaFile' = metaFile
             /\ tempFiles' = tempFiles
             /\ storageFiles' = storageFiles]_vars

\* C1 witness: a finalize of a pending recording was refused for a
\* read-only slot, and the pending temp file is still in the temp directory.
C1_Witness ==
    /\ last.op = "finalize_recording"
    /\ last.outcome = "blocked"
    /\ last.id \in DOMAIN metadata
    /\ metadata[last.id].read_only
    /\ temp_info.button_id = last.id
    /\ temp_info.temp_path \in tempFiles

\* C3: when every id of a fixed pool holds a record of the category,
\* get_new_file_id returns an id whose record has the oldest timestamp of
\* the pool.
C3_EvictionCorrectness ==
    ( /\ last.op = "get_new_file_id"
      /\ last.type \in {"away_message", "custom_message"}
      /\ Saturated(last.type) )
    => last.result \in Oldest(last.type)

\* C4: when the category has a free id, get_new_file_id returns the
\* numerically smallest one (stated for a store that holds records of this
\* category only, where the free ids are the ids without a record).
C4_SmallestFreeId ==
    ( /\ last.op = "get_new_file_id"
      /\ DOMAIN metadata = TypeIds(last.type)
      /\ ~Saturated(last.type) )
    => last.result = NumMin(FreeIds(last.type))

\* C5: get_new_file_id returns an id for every category in every state.
C5_AlwaysAnId ==
    last.op = "get_new_file_id" => last.result # NoId

\* C6: the occupied set get_new_file_id uses for a category is the set of
\* ids whose stored record has that category (stated for the two categories
\* with an occupied set of their own).
C6_DerivedOccupancy ==
    \A type \in {"away_message", "custom_message"} :
        OccupiedFor(type) = TypeIds(type)

\* C7: two get_new_file_id calls for one category with no store mutation in
\* between return different ids while the category is not saturated.
C7_AllocationUniqueness ==
    [][( /\ last.op = "get_new_file_id"
         /\ last'.op = "get_new_file_id"
         /\ last' # last
         /\ last'.type = last.type
         /\ ~Saturated(last.type)
         /\ AvailableIds(last.type) # {} )
       => last'.result # last.result]_vars

\* ============================================== the claims, sessions
\* C2: at most one capture worker of the manager is alive at any time (a
\* start request made while an accepted session's worker has not finished
\* launches no second worker).
C2_SingleActiveSession ==
    Cardinality({w \in Sessions : Alive(w)}) <= 1

\* C8: the callback of an accepted session that has ended, by stop or by a
\* driver failure, has fired exactly once; it has not fired before the
\* session ended, never fires for a rejected start and never fires twice.
C8_CallbackExactlyOnce ==
    \A w \in Sessions :
        /\ workers[w].fired <= 1
        /\ (workers[w].pc = "done" /\ workers[w].cb) => workers[w].fired = 1
        /\ workers[w].pc # "done" => workers[w].fired = 0

\* C8 witness: a start was rejected, and an accepted session with a callback
\* ended by a driver failure and its callback has fired.
C8_Witness ==
    /\ \E w \in Sessions : workers[w].pc = "rejected" /\ workers[w].cb
    /\ \E w \in Sessions : /\ workers[w].pc = "done"
                           /\ workers[w].cb
                           /\ workers[w].failed
                           /\ workers[w].fired = 1

\* C9: the callback of a session that captured successfully finds the
\* session's temp file present and closed and the manager's descriptor set.
C9_CallbackAfterFileClosed ==
    \A w \in Sessions :
        ( /\ workers[w].pc = "done"
          /\ workers[w].cb
          /\ ~workers[w].failed )
        => /\ ~workers[w].obs.partial
           /\ workers[w].obs.desc # EmptyDict

\* C10: the callback of a session whose capture the driver failed finds the
\* manager idle and its descriptor empty (stated for a session that no
\* other session overlapped, so that earlier sessions had ended).
C10_FailureLeavesDescriptorEmpty ==
    \A w \in Sessions :
        ( /\ workers[w].pc = "done"
          /\ workers[w].cb
          /\ workers[w].failed
          /\ workers[w].solo )
        => /\ workers[w].obs.idle
           /\ workers[w].obs.desc = EmptyDict

\* ------------------------------------- the session under fair scheduling
\* A started thread runs: each step of record_worker that is enabled is
\* eventually taken.  The driver returns from record_audio once the
\* session's Event is set (WorkerOpen is enabled only then); nothing obliges
\* the driver to fail, the caller to call or the clock to advance.
WorkerRuns(w) ==
    /\ WF_vars(WorkerBegin(w))
    /\ WF_vars(WorkerOpen(w))
    /\ WF_vars(WorkerClose(w))
    /\ WF_vars(WorkerSetCurrent(w))
    /\ WF_vars(WorkerFinally(w))
    /\ WF_vars(WorkerCallback(w))

SpecSessionFair ==
    Init /\ [][NextSession]_vars /\ \A w \in Sessions : WorkerRuns(w)

\* C11: a stop_recording that signals a session whose worker is alive
\* returns with the worker exited, unless it reports a failure.
C11_StopWaitsForWorker ==
    [][\A w \in Sessions :
          ( /\ w \notin events
            /\ w \in events'
            /\ Alive(w) )
          => \/ workers'[w].pc = "done"
             \/ last'.outcome = "failed"]_vars

\* C12: whenever the manager is recording and stop_recording has been
\* called, the manager eventually is idle again (is_recording false).
C12_SessionLiveness ==
    (is_recording /\ last.op = "stop_recording") ~> ~is_recording

\* =========================================== the claims, defaults
\* C13: every stored record with is_default set is read-only.
C13_DefaultIsReadOnly ==
    \A b \in DOMAIN metadata :
        metadata[b].is_default => metadata[b].read_only

Accepted == {"ok", "converted", "fallback"}

\* C15: a finalize of a pending recording whose temp file exists, into a
\* slot that is absent or not read-only, leaves under the slot a record with
\* the descriptor's message_type, duration, timestamp, sample_rate and
\* channels, the configured audio_format, read_only and is_default false;
\* the records of the other slots are as before.
C15_FinalizeWritesRecord ==
    [][( /\ last'.op = "finalize_recording"
         /\ temp_info # EmptyDict
         /\ temp_info.temp_path \in tempFiles
         /\ ~( /\ temp_info.button_id \in DOMAIN metadata
               /\ metadata[temp_info.button_id].read_only ) )
       => LET b == temp_info.button_id IN
          /\ DOMAIN metadata' = DOMAIN metadata \cup {b}
          /\ metadata'[b].message_type = temp_info.message_type
          /\ metadata'[b].duration = temp_info.duration
          /\ metadata'[b].timestamp = temp_info.timestamp
          /\ metadata'[b].sample_rate = temp_info.sample_rate
          /\ metadata'[b].channels = temp_info.channels
          /\ metadata'[b].audio_format = audio_format
          /\ ~metadata'[b].read_only
          /\ ~metadata'[b].is_default
          /\ \A k \in DOMAIN metadata \ {b} : metadata'[k] = metadata[k]]_vars

\* C15 witness: a clip of the longer duration was finalized into a slot
\* while another slot holds a record.
C15_Witness ==
    /\ last.op = "finalize_recording"
    /\ last.outcome \in Accepted
    /\ metadata[last.id].duration = 2
    /\ metadata[last.id].sample_rate = SampleRate
    /\ Cardinality(DOMAIN metadata) >= 2

\* C16: after an accepted finalize, with any format and whether ffmpeg
\* succeeded or not, the pending temp file is gone from its path and a file
\* is at the stored record's path.
C16_TempFileMoved ==
    ( /\ last.op = "finalize_recording"
      /\ last.outcome \in Accepted )
    => /\ temp_info.temp_path \notin tempFiles
       /\ metadata[last.id].name \in storageFiles

\* C17: when the format is alaw or ulaw and ffmpeg fails, finalize commits
\* the recording all the same: the original file is moved to the record's
\* path and the record is in the store and in the metadata file.
C17_ConversionFallback ==
    ( /\ last.op = "finalize_recording"
      /\ last.outcome = "fallback" )
    => /\ audio_format \in Transcoded
       /\ last.id \in DOMAIN metadata
       /\ metadata[last.id].timestamp = temp_info.timestamp
       /\ metadata[last.id].duration = temp_info.duration
       /\ metadata[last.id].name \in storageFiles
       /\ temp_info.temp_path \notin tempFiles
       /\ last.id \in DOMAIN metaFile.object
       /\ json_load(metaFile)[last.id] = metadata[last.id]

\* C17 witness: with format ulaw the transcoder failed and the recording
\* is stored under its slot.
C17_Witness ==
    /\ audio_format = "ulaw"
    /\ last.op = "finalize_recording"
    /\ last.outcome = "fallback"
    /\ metadata[last.id].name.kind = "rec_ulaw"
    /\ metadata[last.id].name \in storageFiles

\* C18: a discard of a slot leaves the store, the metadata file, the storage
\* files and the temp files of every other slot id unchanged.
C18_DiscardOnlyOwnTempFiles ==
    [][last'.op = "discard_recording"
       => /\ metadata' = metadata
          /\ metaFile' = metaFile
          /\ storageFiles' = storageFiles
          /\ \A f \in tempFiles : f.b # last'.id => f \in tempFiles']_vars

\* C19: the second of two discards of one slot does not fail and changes
\* nothing: temp files, store, metadata file and storage files are as the
\* first discard left them.
C19_DiscardIdempotent ==
    [][( /\ last.op = "discard_recording"
         /\ last'.op = "discard_recording"
         /\ last'.id = last.id
         /\ last'.n # last.n )
       => /\ last'.outcome = "ok"
          /\ tempFiles' = tempFiles
          /\ metadata' = metadata
          /\ metaFile' = metaFile
          /\ storageFiles' = storageFiles]_vars

\* C19 witness: a slot was discarded twice in a row while another pending
\* temp file and a finalized record exist.
C19_Witness ==
    /\ last.op = "discard_recording"
    /\ last.n = 1
    /\ tempFiles # {}
    /\ DOMAIN metadata # {}

Mutators ==
    {"set_read_only", "finalize_recording", "assign_default",
     "restore_default"}

C22_LoadNeverRaises ==
    last.op = "reopen"
    => /\ last.outcome = "ok"
       /\ metaFile.kind # "json" => metadata = EmptyStore

\* ============================================ the claims, newest message
\* the ids whose record has the type and a timestamp that parses
Candidates(type) ==
    {b \in DOMAIN metadata :
        /\ metadata[b].message_type = type
        /\ Truthy(metadata[b].timestamp)
        /\ Parses(metadata[b].timestamp)}

Written(m) == [b \in DOMAIN m |-> [m[b] EXCEPT !.timestamp = isoformat(@)]]

\* C23: every record the manager wrote has a timestamp that strptime with
\* "%Y-%m-%d %H:%M:%S" parses, and after a finalize of a recording of a
\* category get_newest_message_of_type of that category returns a record
\* of the category, none of which is newer.
C23_TimestampsParse ==
    /\ \A b \in DOMAIN metadata : Parses(Written(metadata)[b].timestamp)
    /\ ( /\ last.op = "finalize_recording"
         /\ last.outcome \in Accepted )
       => \A order \in Orders(DOMAIN metadata) :
            LET newest == ScanNewest(Written(metadata), order, last.type,
                                     NoMessage, 0)
            IN /\ newest # NoMessage
               /\ newest.message_type = last.type
               /\ \A b \in DOMAIN metadata :
                     metadata[b].message_type = last.type
                     => metadata[b].timestamp <= strptime(newest.timestamp)

\* ======================================================= the claims, play
\* C25: play returns true when it handed the audio to the driver; when it
\* found nothing to play it returns a false value, did not call the
\* driver, and was not given the id of a slot that has a record.
C25_PlayResolves ==
    last.op = "play_audio"
    => /\ last.outcome = "played" => last.result = "True"
       /\ last.outcome = "not_found"
            => /\ last.result \in {"False", "None"}
               /\ last.id \notin DOMAIN metadata

C28_AssignDefaultMissingSource ==
    [][( /\ last'.op = "assign_default"
         /\ last'.outcome = "noop" )
       => /\ metadata' = metadata
          /\ metaFile' = metaFile
          /\ storageFiles' = storageFiles
          /\ tempFiles' = tempFiles]_vars

\* C28 witness: assign_default with a missing source returned while the
\* slot has no record and another slot has one.
C28_Witness ==
    /\ last.op = "assign_default"
    /\ last.outcome = "noop"
    /\ last.id \notin DOMAIN metadata
    /\ DOMAIN metadata # {}
    /\ DefaultName(last.id) \notin storageFiles

\* C29: restore_default of a slot that has no default file changes neither
\* the store (the slot's record included) nor the metadata file nor the
\* storage files.
C29_RestoreWithoutDefault ==
    [][( /\ last'.op = "restore_default"
         /\ DefaultName(last'.id) \notin storageFiles )
       => /\ metadata' = metadata
          /\ metaFile' = metaFile
          /\ storageFiles' = storageFiles
          /\ tempFiles' = tempFiles]_vars

\* C29 witness: restore_default returned for a slot that holds a finalized
\* recording and has no default file.
C29_Witness ==
    /\ last.op = "restore_default"
    /\ last.outcome = "noop"
    /\ last.id \in DOMAIN metadata
    /\ metadata[last.id].message_type = "note"
    /\ metadata[last.id].name \in storageFiles
    /\ DefaultName(last.id) \notin storageFiles

\* C30: set_read_only of an id the store does not hold adds no entry and
\* changes no record; of an id it holds, it changes nothing but the
\* read_only field of that id's record.
C30_SetReadOnlyFrame ==
    [][last'.op = "MetadataManager.set_read_only"
       => /\ DOMAIN metadata' = DOMAIN metadata
          /\ \A k \in DOMAIN metadata :
                IF k = last'.id
                THEN [metadata'[k] EXCEPT !.read_only = metadata[k].read_only]
                        = metadata[k]
                ELSE metadata'[k] = metadata[k]
          /\ last'.id \notin DOMAIN metadata
                => metadata' = metadata /\ metaFile' = metaFile]_vars

\* C30 witness: the flag of the first of three stored messages was set.
C30_Witness ==
    /\ last.op = "MetadataManager.set_read_only"
    /\ last.outcome = "ok"
    /\ Cardinality(DOMAIN metadata) = 3
    /\ metadata[last.id].read_only

\* ------------------------- MetadataManager called from several threads
\* test_threading_safety: each thread calls update_recording and then get
\* for ids of its own, one after the other.  No statement of
\* update_recording or save takes a lock, so the threads' statements
\* interleave.  workers holds the threads, metadata is self.metadata and
\* metaFile the characters of the metadata file, as a sequence of tokens.
Threads == {1, 2}
Iterations == {1, 2}
ButtonOf(t, i) == 10 * t + i
ThreadData(t, i) == [thread |-> t, iteration |-> i]
NoData == [thread |-> 0, iteration |-> 0]
AllButtons == {ButtonOf(t, i) : t \in Threads, i \in Iterations}

\* json.dump(self.metadata, f, indent=4): an opening brace, one entry for
\* each key and a closing brace.  Every id and every record of the threads
\* takes the same number of characters, so the model counts entries.
Brace(c) == [tok |-> c, key |-> NoId, value |-> NoData]
Entry(m, k) == [tok |-> "entry", key |-> k, value |-> m[k]]

RECURSIVE Entries(_, _)
Entries(m, K) ==
    IF K = {} THEN <<>>
    ELSE LET k == NumMin(K) IN <<Entry(m, k)>> \o Entries(m, K \ {k})

JsonText(m) == <<Brace("{")>> \o Entries(m, DOMAIN m) \o <<Brace("}")>>

\* what reached the buffer when the dict iterator raised RuntimeError after
\* n entries
PartialText(m, n) == <<Brace("{")>> \o SubSeq(Entries(m, DOMAIN m), 1, n)

\* open(file, 'w') truncates; the buffered text is written at offset 0 when
\* the file is closed, over whatever another writer put there meanwhile
Truncated == <<>>
Flushed(old, text) == text \o SubSeq(old, Len(text) + 1, Len(old))

\* json.load of the characters: one object and nothing after it
Parsable(text) ==
    /\ Len(text) >= 2
    /\ text[1] = Brace("{")
    /\ text[Len(text)] = Brace("}")
    /\ \A n \in 2..(Len(text) - 1) : text[n].tok = "entry"
ParsedObject(text) ==
    [k \in {text[n].key : n \in 2..(Len(text) - 1)} |->
        text[CHOOSE n \in 2..(Len(text) - 1) :
                /\ text[n].key = k
                /\ \A j \in (n + 1)..(Len(text) - 1) : text[j].key # k].value]

IdleThread == [pc |-> "idle", i |-> 1, seen |-> {}, buf |-> <<>>,
               mismatch |-> FALSE]

\* self.metadata[button_id] = data
ThreadAssign(t) ==
    /\ workers[t].pc = "idle"
    /\ metadata' = Put(metadata, ButtonOf(t, workers[t].i),
                       ThreadData(t, workers[t].i))
    /\ workers' = [workers EXCEPT ![t].pc = "assigned"]
    /\ UNCHANGED metaFile

\* save: with open(self.metadata_file, 'w') as f
ThreadOpen(t) ==
    /\ workers[t].pc = "assigned"
    /\ metaFile' = Truncated
    /\ workers' = [workers EXCEPT ![t].pc = "open"]
    /\ UNCHANGED metadata

\* json.dump starts to iterate over self.metadata.items()
ThreadDumpBegin(t) ==
    /\ workers[t].pc = "open"
    /\ workers' = [workers EXCEPT ![t].pc = "dumping",
                                  ![t].seen = DOMAIN metadata]
    /\ UNCHANGED <<metadata, metaFile>>

\* the dict iterator raises RuntimeError (dictionary changed size during
\* iteration) when a key was inserted since it was made
DictChanged(t) == DOMAIN metadata # workers[t].seen

\* the iteration ends: with every entry in the buffer, or with RuntimeError
\* after some of them
ThreadDumpEnd(t) ==
    /\ workers[t].pc = "dumping"
    /\ IF DictChanged(t)
       THEN \E n \in 0..Cardinality(workers[t].seen) :
               workers' = [workers EXCEPT
                             ![t].pc = "raising",
                             ![t].buf = PartialText(metadata, n)]
       ELSE workers' = [workers EXCEPT ![t].pc = "dumped",
                                       ![t].buf = JsonText(metadata)]
    /\ UNCHANGED <<metadata, metaFile>>

\* the end of the with block closes the file, which writes the buffer; an
\* exception then leaves update_recording and ends the thread's loop
ThreadClose(t) ==
    /\ workers[t].pc \in {"dumped", "raising"}
    /\ metaFile' = Flushed(metaFile, workers[t].buf)
    /\ workers' = [workers EXCEPT
          ![t].pc = IF workers[t].pc = "dumped" THEN "saved" ELSE "failed"]
    /\ UNCHANGED metadata

\* result = self.manager.get(button_id), compared with data; then the next
\* iteration
ThreadGet(t) ==
    /\ workers[t].pc = "saved"
    /\ LET i == workers[t].i
           b == ButtonOf(t, i)
       IN workers' = [workers EXCEPT
             ![t].mismatch = @ \/ b \notin DOMAIN metadata
                               \/ metadata[b] # ThreadData(t, i),
             ![t].pc = IF i + 1 \in Iterations THEN "idle" ELSE "done",
             ![t].i = IF i + 1 \in Iterations THEN i + 1 ELSE i]
    /\ UNCHANGED <<metadata, metaFile>>

\* a MetadataManager over no file, and the threads before they start
InitThreads ==
    /\ num_buttons = NumButtons
    /\ audio_format = "pcm"
    /\ metadata = EmptyStore
    /\ occupied_away_messages = {}
    /\ occupied_custom_messages = {}
    /\ metaFile = Truncated
    /\ tempFiles = {}
    /\ storageFiles = {}
    /\ temp_info = EmptyDict
    /\ now = 0
    /\ sec = 0
    /\ last = Call("init", NoId, "", NoId, "ok")
    /\ is_recording = FALSE
    /\ current_file = EmptyDict
    /\ stop_event = 0
    /\ events = {}
    /\ workers = [t \in Threads |-> IdleThread]

ThreadFrame ==
    UNCHANGED <<num_buttons, audio_format, occupied_away_messages,
                occupied_custom_messages, tempFiles, storageFiles, temp_info,
                now, sec, last, is_recording, current_file, stop_event,
                events>>

NextThreads ==
    \/ \E t \in Threads : ThreadAssign(t) /\ ThreadFrame
    \/ \E t \in Threads : ThreadOpen(t) /\ ThreadFrame
    \/ \E t \in Threads : ThreadDumpBegin(t) /\ ThreadFrame
    \/ \E t \in Threads : ThreadDumpEnd(t) /\ ThreadFrame
    \/ \E t \in Threads : ThreadClose(t) /\ ThreadFrame
    \/ \E t \in Threads : ThreadGet(t) /\ ThreadFrame

SpecThreads == InitThreads /\ [][NextThreads]_vars

\* every thread has left its loop
ThreadsJoined == \A t \in Threads : workers[t].pc \in {"done", "failed"}

\* C31: when threads call update_recording with distinct ids at the same
\* time, no call fails, each thread reads back what it wrote, and once all
\* threads have finished the store holds every written entry and the
\* metadata file is valid JSON equal to the store.
C31_ThreadSafe ==
    /\ \A t \in Threads : workers[t].pc # "failed" /\ ~workers[t].mismatch
    /\ ThreadsJoined =>
          /\ DOMAIN metadata = AllButtons
          /\ Parsable(metaFile)
          /\ ParsedObject(metaFile) = metadata

\* ------------------------------------------- cleanup during a session
\* cleanup(): sets self._exit_flag (which nothing of the manager reads),
\* joins self._recording_thread for at most one second when it is alive,
\* and removes the temp directory with everything in it.  It does not touch
\* self._stop_event.  The thread kept in self._recording_thread is the one
\* of the last accepted start, as is the Event kept in self._stop_event.
\* The record of the call says whether the manager was recording when
\* cleanup was called.
Joining == last.op = "cleanup" /\ last.outcome = "joining"
TempDirRemoved == last.op = "cleanup" /\ last.outcome = "ok"

cleanup_begin ==
    /\ ~Joining
    /\ ~TempDirRemoved
    /\ last' = Call("cleanup", NoId,
                    IF is_recording THEN "recording" ELSE "idle", NoId,
                    "joining")
    /\ UNCHANGED <<now, sec>>
    /\ UNCHANGED storeVars
    /\ UNCHANGED sessionVars

\* join(timeout=1.0) returns when the thread has ended or the second is
\* over, whichever comes first; the directory is removed then
cleanup_end ==
    /\ Joining
    /\ tempFiles' = {}
    /\ last' = [last EXCEPT !.outcome = "ok"]
    /\ UNCHANGED <<num_buttons, audio_format, metadata, occupied_away_messages,
                   occupied_custom_messages, metaFile, storageFiles, temp_info,
                   now, sec>>
    /\ UNCHANGED sessionVars

\* wave.open(temp_path, 'wb') in a directory that is gone raises
\* FileNotFoundError, which record_worker logs
WorkerOpenFails(w) ==
    /\ TempDirRemoved
    /\ workers[w].pc = "capturing"
    /\ w \in events
    /\ workers' = [workers EXCEPT ![w].pc = "finally", ![w].failed = TRUE]
    /\ UNCHANGED <<is_recording, current_file, stop_event, events, now, sec,
                   last>>
    /\ UNCHANGED storeVars

\* The caller starts and stops sessions for one slot and calls cleanup once,
\* which is the end of its use of the manager; the workers run on.
CallerFree == ~Joining /\ ~TempDirRemoved

NextCleanup ==
    \/ CallerFree /\ record_audio_threaded(1, "custom_message", FALSE)
    \/ CallerFree /\ stop_recording
    \/ cleanup_begin
    \/ cleanup_end
    \/ \E w \in Sessions : WorkerBegin(w)
    \/ \E w \in Sessions : WorkerDriverFails(w)
    \/ \E w \in Sessions : ~TempDirRemoved /\ WorkerOpen(w)
    \/ \E w \in Sessions : WorkerOpenFails(w)
    \/ \E w \in Sessions : WorkerClose(w)
    \/ \E w \in Sessions : WorkerSetCurrent(w)
    \/ \E w \in Sessions : WorkerFinally(w)
    \/ \E w \in Sessions : WorkerCallback(w)

SpecCleanup == Init /\ [][NextCleanup]_vars

\* C32: when a cleanup that was called during a recording returns, no
\* capture worker is left running (the worker was stopped and has exited
\* before the directory was removed), the manager is not recording and the
\* temp directory is gone.
C32_CleanupStopsRecording ==
    [][(Joining /\ last.type = "recording" /\ TempDirRemoved') =>
          /\ \A w \in Sessions : ~Alive(w)'
          /\ ~is_recording'
          /\ tempFiles' = {}]_vars

\* the worker of session w has not reached its finally clause yet
Capturing(w) ==
    workers[w].pc \in {"started", "capturing", "writing", "written"}

\* C33: from the return of an accepted start until its worker has finished
\* the manager reports the recording as active: is_recording is true
\* whenever an accepted session's worker has still to finish.
C33_ActiveFromStart ==
    \A w \in Sessions : Capturing(w) => is_recording

\* C34: a recording session gets a temp file path no earlier session has:
\* when record_audio_to_temp returns a descriptor, its temp path is not the
\* path of a temp file that was there before the call (the file of an
\* earlier recording that was neither finalized nor discarded), also when
\* both captures start in the same clock second.
C34_DistinctTempPaths ==
    [][(/\ now' = now + 1
        /\ last'.op = "record_audio_to_temp"
        /\ last'.outcome = "ok")
       => temp_info'.temp_path \notin tempFiles]_vars

\* C35: the categories have id pools of their own: finalizing a recording
\* under an id that get_new_file_id returned for its category leaves every
\* stored record of another category in the store, unchanged.
C35_IndependentPools ==
    [][(/\ last'.op = "finalize_recording"
        /\ last'.outcome \in Accepted
        /\ metadata' # metadata)
       => \A b \in DOMAIN metadata :
             metadata[b].message_type # last'.type
                => b \in DOMAIN metadata' /\ metadata'[b] = metadata[b]]_vars

\* --------------------------------------- the mapping get_all returns
\* A dict the caller holds is the store's own dict object or another one
\* with contents of its own.
StoreObject == [object |-> "self.metadata", value |-> EmptyStore]
CopyObject(m) == [object |-> "copy", value |-> m]
Contents(ref) == IF ref.object = "self.metadata" THEN metadata ELSE ref.value

\* get(button_id): self.metadata.get(button_id)
MetadataManager_get(m, b) == IF b \in DOMAIN m THEN m[b] ELSE NoMessage

\* get_all(): return self.metadata (AudioFileManager.list_all_recordings
\* returns self.metadata in the same way)
get_all ==
    /\ last' = Call("get_all", NoId, "", StoreObject, "ok")
    /\ UNCHANGED storeVars
    /\ UNCHANGED <<now, sec>>
    /\ UNCHANGED sessionVars

\* the caller holds the mapping the last get_all returned
HoldsMapping == last.op \in {"get_all", "set item", "del item"}

\* the caller's statement result[b] = data, or del result[b], on the mapping
\* it holds: the dict object behind it changes, and nothing is saved
caller_sets_item(b, data) ==
    /\ HoldsMapping
    /\ LET ref == last.result
           m == Put(Contents(ref), b, data)
       IN /\ metadata' = IF ref.object = "self.metadata" THEN m ELSE metadata
          /\ last' = Call("set item", b, "",
                          IF ref.object = "self.metadata" THEN ref
                          ELSE CopyObject(m), "ok")
    /\ UNCHANGED <<num_buttons, audio_format, occupied_away_messages,
                   occupied_custom_messages, metaFile, tempFiles,
                   storageFiles, temp_info, now, sec>>
    /\ UNCHANGED sessionVars

caller_deletes_item(b) ==
    /\ HoldsMapping
    /\ b \in DOMAIN Contents(last.result)
    /\ LET ref == last.result
           m == Del(Contents(ref), b)
       IN /\ metadata' = IF ref.object = "self.metadata" THEN m ELSE metadata
          /\ last' = Call("del item", b, "",
                          IF ref.object = "self.metadata" THEN ref
                          ELSE CopyObject(m), "ok")
    /\ UNCHANGED <<num_buttons, audio_format, occupied_away_messages,
                   occupied_custom_messages, metaFile, tempFiles,
                   storageFiles, temp_info, now, sec>>
    /\ UNCHANGED sessionVars

\* The caller constructs the store, puts away messages under three ids, asks
\* for all records and adds, replaces and removes entries of the mapping it
\* got.
NextMapping ==
    \/ MetadataManager_init
    \/ \E b \in StoreIds :
           StoreLive /\ update_recording(b, Message(b, "away_message",
                                                    strftime(1)))
    \/ StoreLive /\ get_all
    \/ \E b \in StoreIds :
           StoreLive /\ caller_sets_item(b, Message(b, "custom_message",
                                                    strftime(2)))
    \/ \E b \in StoreIds : StoreLive /\ caller_deletes_item(b)

SpecMapping == InitStore /\ [][NextMapping]_vars

\* C36: the mapping get_all returned is a snapshot: adding, replacing or
\* removing an entry of it changes neither what get returns for any id nor
\* what a later get_all returns.
C36_GetAllSnapshot ==
    [][(last'.op \in {"set item", "del item"} /\ last' # last)
       => /\ \A b \in StoreIds :
                MetadataManager_get(metadata', b)
                   = MetadataManager_get(metadata, b)
          /\ metadata' = metadata]_vars

\* ------------------------ LegacyServiceAdapter (legacy_service.py)
\* The JSON backups of the adapter.  In this specification workers holds
\* the adapter object (message_type, current_file, _away_messages,
\* _custom_messages, and whether the audio_manager it was given has a
\* config attribute: a Config of config.py, which AudioFileManager of
\* manager.py does not have) and metaFile holds the two backup files,
\* away_messages.json and custom_messages.json, by category.
BackupTypes == {"away_message", "custom_message"}
adapter == workers

\* dict.fromkeys([...]): every field None
NoCurrentFile == [id |-> NoId, filename |-> <<"None", NoId>>,
                  timestamp |-> NoText]

\* json.dump / json.load of a backup mapping: a key that is None is
\* written as the text "null" and read back as that text; the other keys
\* are str.  In an entry the int is written and read back as a number.
NullKey == -1
JsonKey(k) == IF k = NoId THEN NullKey ELSE k
BackupFile(m) ==
    [kind |-> "json",
     object |-> [j \in {JsonKey(k) : k \in DOMAIN m} |->
                   LET k == CHOOSE k \in DOMAIN m : JsonKey(k) = j
                   IN [m[k] EXCEPT !.sampling_rate = JsonNumber(@)]]]
EmptyFile == Unparsable

\* _load_json: {} when the file is absent and when json.load raises
load_json(f) ==
    IF f.kind = "json"
    THEN [k \in DOMAIN f.object |->
            [f.object[k] EXCEPT !.sampling_rate = PyNumber(@)]]
    ELSE EmptyStore

\* the entry update_json_backup builds from current_file and the config
BackupEntry(cur) ==
    [filename |-> cur.filename, sampling_rate |-> SampleRate,
     encoding |-> "pcm", timestamp |-> cur.timestamp]

\* save(backup_file): the file is opened for writing, and what is dumped
\* into it is chosen by self.message_type
SavedText(a, t) ==
    IF a.message_type = "away_message" THEN BackupFile(a.away_messages)
    ELSE IF a.message_type = "custom_message"
         THEN BackupFile(a.custom_messages)
    ELSE EmptyFile

AdapterFrame ==
    UNCHANGED <<num_buttons, audio_format, metadata, occupied_away_messages,
                occupied_custom_messages, tempFiles, storageFiles, temp_info,
                now, sec, is_recording, current_file, stop_event, events>>

\* LegacyServiceAdapter(audio_manager, message_path) over the backup files
\* as they are
NewAdapter(config, files) ==
    [message_type |-> "default", current_file |-> NoCurrentFile,
     away_messages |-> load_json(files["away_message"]),
     custom_messages |-> load_json(files["custom_message"]),
     config |-> config]

LegacyServiceAdapter_init(config) ==
    /\ workers' = NewAdapter(config, metaFile)
    /\ last' = Call("LegacyServiceAdapter", NoId, "", NoId, "ok")
    /\ UNCHANGED metaFile
    /\ AdapterFrame

\* run(message_type), first statement: self.message_type = message_type
set_message_type(t) ==
    /\ workers' = [workers EXCEPT !.message_type = t]
    /\ last' = Call("message_type", NoId, t, NoId, "ok")
    /\ UNCHANGED metaFile
    /\ AdapterFrame

\* _generate_new_file_name with the id _get_new_id returned; the new
\* current_file reads the config, outside any try
generate_new_file_name(k) ==
    /\ IF adapter.config
       THEN /\ workers' = [workers EXCEPT !.current_file =
                    [id |-> k, filename |-> <<adapter.message_type, k>>,
                     timestamp |-> strftime(1)]]
            /\ last' = Call("_generate_new_file_name", k, "", NoId, "ok")
       ELSE /\ UNCHANGED workers
            /\ last' = Call("_generate_new_file_name", k, "", NoId, "raised")
    /\ UNCHANGED metaFile
    /\ AdapterFrame

\* update_json_backup(message_type)
update_json_backup(t) ==
    /\ IF t \notin BackupTypes
       THEN /\ last' = Call("update_json_backup", adapter.current_file.id, t,
                            NoId, "raised")
            /\ UNCHANGED <<workers, metaFile>>
       ELSE IF ~adapter.config
       THEN /\ last' = Call("update_json_backup", adapter.current_file.id, t,
                            NoId, "warned")
            /\ UNCHANGED <<workers, metaFile>>
       ELSE /\ workers' =
                 IF t = "away_message"
                 THEN [workers EXCEPT !.away_messages =
                         Put(@, adapter.current_file.id,
                             BackupEntry(adapter.current_file))]
                 ELSE [workers EXCEPT !.custom_messages =
                         Put(@, adapter.current_file.id,
                             BackupEntry(adapter.current_file))]
            /\ metaFile' = [metaFile EXCEPT ![t] = SavedText(workers', t)]
            /\ last' = Call("update_json_backup", adapter.current_file.id, t,
                            NoId, "ok")
    /\ AdapterFrame

\* The adapter was constructed over a directory without backup files, with
\* either kind of audio manager.  The caller sets the category, makes a new
\* file name for an id, updates a backup and constructs the adapter again
\* over the same directory.
AdapterIds == {1}

InitAdapter ==
    /\ num_buttons = NumButtons
    /\ audio_format = "pcm"
    /\ metadata = EmptyStore
    /\ occupied_away_messages = {}
    /\ occupied_custom_messages = {}
    /\ metaFile = [t \in BackupTypes |-> NoFile]
    /\ tempFiles = {}
    /\ storageFiles = {}
    /\ temp_info = EmptyDict
    /\ now = 0
    /\ sec = 0
    /\ last = Call("LegacyServiceAdapter", NoId, "", NoId, "ok")
    /\ is_recording = FALSE
    /\ current_file = EmptyDict
    /\ stop_event = 0
    /\ events = {}
    /\ \E config \in BOOLEAN : workers = NewAdapter(config, metaFile)

NextAdapter ==
    \/ LegacyServiceAdapter_init(adapter.config)
    \/ \E t \in BackupTypes : set_message_type(t)
    \/ \E k \in AdapterIds : generate_new_file_name(k)
    \/ \E t \in BackupTypes \cup {""} : update_json_backup(t)

SpecAdapter == InitAdapter /\ [][NextAdapter]_vars

\* C37: after update_json_backup(t) for t away_message or custom_message
\* has returned, the backup file of type t holds the current file's entry
\* under its id, and loading that file gives the entry back, whatever
\* self.message_type is at that moment.
C37_BackupRoundTrip ==
    (last.op = "update_json_backup" /\ last.type \in BackupTypes)
       => /\ metaFile[last.type].kind = "json"
          /\ LET m == load_json(metaFile[last.type])
                 k == adapter.current_file.id
             IN /\ k \in DOMAIN m
                /\ m[k] = BackupEntry(adapter.current_file)

\* the encoding of the file an accepted finalize leaves at the final path:
\* what ffmpeg wrote, or the temp file as record_audio_to_temp wrote it
\* (16-bit PCM)
EncodingOfFinal(outcome) ==
    IF outcome = "converted" THEN audio_format ELSE "pcm"

\* C38: the audio_format field of a stored record names the encoding of
\* the file at the record's path: after an accepted finalize the record of
\* the slot has the encoding of the file that was put at the final path,
\* and after a finalize whose transcoding failed it does not say alaw or
\* ulaw.
C38_RecordNamesEncoding ==
    (last.op = "finalize_recording" /\ last.outcome \in Accepted)
       => /\ metadata[last.id].audio_format = EncodingOfFinal(last.outcome)
          /\ last.outcome = "fallback"
                => metadata[last.id].audio_format \notin Transcoded

\* ------------------------------------------- a slot that has a default
\* The manager is constructed over a storage directory and a metadata file
\* left by a run in which assign_default gave the first slot a default.  The
\* caller un-protects and protects slots, records, finalizes and discards
\* recordings, restores defaults and gives the second slot a default.
DefaultsStore ==
    Put(EmptyStore, 1, Record(DefaultName(1), 0, "default", TRUE, TRUE))

InitDefaults ==
    /\ num_buttons = NumButtons
    /\ audio_format \in Formats
    /\ metadata = load_metadata(json_dump(DefaultsStore))
    /\ occupied_away_messages = LoadOccupied(metadata, "away_message")
    /\ occupied_custom_messages = LoadOccupied(metadata, "custom_message")
    /\ metaFile = json_dump(DefaultsStore)
    /\ tempFiles = {}
    /\ storageFiles = {DefaultName(1)}
    /\ temp_info = EmptyDict
    /\ now = 0
    /\ sec = 0
    /\ last = Call("init", NoId, "", NoId, "ok")
    /\ InitSession

NextDefaults ==
    \/ \E b \in Ids : record_audio_to_temp(b, "note", TRUE, ShortClip)
    \/ finalize_recording(temp_info)
    \/ \E b \in Ids : discard_recording(b)
    \/ \E b \in Ids, ro \in BOOLEAN : set_read_only(b, ro)
    \/ \E b \in Ids : restore_default(b)
    \/ assign_default(2, TRUE)
    \/ Tick

SpecDefaults == InitDefaults /\ [][NextDefaults]_vars

C40_FailedFinalizeWritesNothing ==
    [][(/\ temp_info # EmptyDict
        /\ temp_info.temp_path \notin tempFiles
        /\ last'.op = "finalize_recording")
          => UNCHANGED <<metadata, occupied_away_messages,
                         occupied_custom_messages, metaFile,
                         storageFiles>>]_vars

\* C40 witness: finalize_recording has raised over a descriptor whose temp
\* file was discarded, with a transcoding format, and the slot has no
\* record.
C40_Witness ==
    /\ last.op = "finalize_recording"
    /\ last.outcome = "raised"
    /\ audio_format \in Transcoded
    /\ temp_info.temp_path \notin tempFiles
    /\ last.id \notin DOMAIN metadata
    /\ last.id \notin occupied_away_messages \cup occupied_custom_messages

====
